---- MODULE Spec2Model ----
(***************************************************************************)
(* Model of src/work4.py, a Streamlit chat assistant.                      *)
(*                                                                         *)
(* Streamlit runs main() from top to bottom once per widget event, so      *)
(* every action below is one script run: init_session_state (a no-op once  *)
(* the keys exist), setup_sidebar, the rendering of the history and, when  *)
(* the event is a chat input, the question handling of main().             *)
(*                                                                         *)
(* Text is a sequence of tokens; concatenation of Python strings is \o.    *)
(* The Chinese literals of the source are given by ASCII stand-ins.        *)
(***************************************************************************)
EXTENDS Naturals, Sequences, FiniteSets

VARIABLES
    messages,          \* st.session_state['messages']: sequence of (role, content)
    file_content,      \* st.session_state['file_content']
    strict_file_mode,  \* st.session_state['strict_file_mode']
    secrets,           \* st.secrets entry OPENAI_API_KEY
    dotenv,            \* OPENAI_API_KEY line of the .env file
    environ,           \* os.environ entry OPENAI_API_KEY
    disk,              \* temporary files of load_file that exist on disk
    request,           \* the chat-completion call issued by the last script run
    event              \* the widget event the last script run handled, and its outcome

vars == <<messages, file_content, strict_file_mode, secrets, dotenv, environ,
          disk, request, event>>

----------------------------------------------------------------------------
(* Bounds of the model *)

\* the script stops accepting questions once the log holds this many turns
MaxTurns == 5
\* number of temporary file names available on the disk
MaxTmpFiles == 2

----------------------------------------------------------------------------
(* Literals of the source *)

\* a source that does not define OPENAI_API_KEY at all
Absent == "<absent>"
\* the empty string as a key value
EmptyKey == ""

SecretsValues == {Absent, EmptyKey, "sk-secrets"}
DotenvValues  == {Absent, EmptyKey, "sk-dotenv"}
EnvironValues == {Absent, EmptyKey, "sk-environ"}

GreetingTurn == [role |-> "tiger", content |-> <<"hello, I am your AI assistant">>]
ClearedTurn  == [role |-> "ai", content |-> <<"history cleared, ask me a new question">>]
FallbackText == <<"cannot reply for now, check the configuration or retry later">>
UnsupportedText == <<"unsupported file type">>

StrictDirective ==
    <<"answer strictly from the file content below; if it has no relevant information, answer 'cannot answer from the file content':", "\n\n">>
FileContentLabel == <<"file content:", "\n">>
QuestionLabel    == <<"\n\n", "question:">>
PageSeparator    == <<"\n\n">>

(* Inputs *)
Questions == { <<"q1">>, <<"q2", "q3">> }
Replies   == { <<"r1">> }
\* what the chat API does when it is called: it raises, or returns a reply
ApiOutcomes == {[raises |-> TRUE, reply |-> <<>>]}
                  \cup {[raises |-> FALSE, reply |-> r] : r \in Replies}
FileNames == { <<"notes", "txt">>, <<"report", "PDF">>, <<"cv", "docx">>, <<"data", "csv">> }
PageLists == { <<>>, << <<"p1">> >>, << <<"p1">>, <<"p2">> >> }
\* what goes wrong while the file is loaded: nothing, the write of the
\* uploaded bytes into the temporary file, or the loader
Faults    == {"none", "write", "loader"}
UploadedFiles ==
    { f \in [name : FileNames, pages : PageLists, fault : Faults] :
         f.fault # "none" => f.pages = <<>> }

NoRequest == [sent |-> FALSE, api_key |-> EmptyKey, messages |-> <<>>]

----------------------------------------------------------------------------
(* get_api_key *)

\* load_dotenv() with its default override=False: a variable of the .env
\* file is copied into os.environ only when os.environ does not define it
load_dotenv(env, file) ==
    IF env = Absent /\ file # Absent THEN file ELSE env

\* Python truthiness of os.getenv / os.environ.get: None and "" are falsy
Truthy(v) == v # Absent /\ v # EmptyKey

\* the result of get_api_key: the key it returns, or stop when st.stop()
\* ends the script run; environ is os.environ as get_api_key leaves it
get_api_key(sec, file, env) ==
    IF sec # Absent
    THEN [stop |-> FALSE, api_key |-> sec, environ |-> env]
    ELSE LET env2 == load_dotenv(env, file) IN
         IF Truthy(env2)
         THEN [stop |-> FALSE, api_key |-> env2, environ |-> env2]
         ELSE [stop |-> TRUE, api_key |-> EmptyKey, environ |-> env2]

----------------------------------------------------------------------------
(* get_answer *)

\* the role mapping of the history projection
ApiRole(role) == IF role = "ai" THEN "assistant" ELSE "user"

\* st.session_state['messages'][:-1]
HistoryKeepAll(msgs) == msgs
History(msgs) == IF msgs = <<>> THEN <<>> ELSE SubSeq(msgs, 1, Len(msgs) - 1)

\* the f-string of the strict instruction
StrictInstructionNoDoc(doc, question) ==
    StrictDirective \o FileContentLabel \o QuestionLabel \o question
StrictInstruction(doc, question) ==
    StrictDirective \o FileContentLabel \o doc \o QuestionLabel \o question

\* the condition under which the last message is replaced
UseStrictIgnoreDoc(strict, doc) == strict
UseStrict(strict, doc) == strict /\ doc # <<>>

\* the message list handed to client.chat.completions.create
BuildMessages(msgs, question, strict, doc) ==
    LET hist == History(msgs)
        projected == [i \in 1..Len(hist) |->
                        [role |-> ApiRole(hist[i].role), content |-> hist[i].content]]
        last == IF UseStrict(strict, doc)
                THEN StrictInstruction(doc, question)
                ELSE question
    IN  Append(projected, [role |-> "user", content |-> last])

\* what get_answer returns once the API call has returned or raised:
\* the first completion's text, or the fallback sentence of the except branch
AnswerPropagate(api) == api.reply
Answer(api) == IF api.raises THEN FallbackText ELSE api.reply

----------------------------------------------------------------------------
(* load_file *)

Lower(s) ==
    CASE s = "PDF" -> "pdf"
      [] s = "TXT" -> "txt"
      [] s = "DOCX" -> "docx"
      [] OTHER -> s

\* uploaded_file.name.split('.')[-1].lower()
file_type(name) == Lower(name[Len(name)])

RECURSIVE JoinPages(_)
\* "\n\n".join(doc.page_content for doc in docs)
JoinPages(docs) ==
    IF docs = <<>> THEN <<>>
    ELSE IF Len(docs) = 1 THEN docs[1]
    ELSE docs[1] \o PageSeparator \o JoinPages(Tail(docs))

\* the result of load_file: what it returns, how it ended, and whether the
\* finally block unlinked the temporary file.  tmp_file_path is assigned
\* after the write, so a failing write leaves it None and nothing is unlinked.
load_file(f) ==
    IF f.fault = "write"
    THEN [content |-> <<>>, outcome |-> "write_error", unlinked |-> FALSE]
    ELSE IF file_type(f.name) \notin {"txt", "pdf", "docx"}
    THEN [content |-> UnsupportedText, outcome |-> "unsupported", unlinked |-> TRUE]
    ELSE IF f.fault = "loader"
    THEN [content |-> <<>>, outcome |-> "load_error", unlinked |-> TRUE]
    ELSE [content |-> JoinPages(f.pages), outcome |-> "loaded", unlinked |-> TRUE]

\* the name tempfile.NamedTemporaryFile picks: one that is not on the disk
FreshTmp(d) == CHOOSE p \in (1..MaxTmpFiles) \ d :
                  \A o \in (1..MaxTmpFiles) \ d : p <= o

\* setup_sidebar: the document text after `if file_content:`
StoreFileContent(old, loaded) == IF loaded # <<>> THEN loaded ELSE old

----------------------------------------------------------------------------
(* the clear button *)

ClearToGreeting(msgs) == <<GreetingTurn>>
ClearHistory(msgs) == <<ClearedTurn>>

----------------------------------------------------------------------------
(* State machine *)

Init ==
    /\ messages = <<GreetingTurn>>
    /\ file_content = <<>>
    /\ strict_file_mode = FALSE
    /\ secrets \in SecretsValues
    /\ dotenv \in DotenvValues
    /\ environ \in EnvironValues
    /\ disk = {}
    /\ request = NoRequest
    /\ event = [op |-> "start", outcome |-> "none", tmp |-> 0]

\* the strict-mode toggle is flipped
Toggle ==
    /\ strict_file_mode' = ~strict_file_mode
    /\ request' = NoRequest
    /\ event' = [op |-> "toggle", outcome |-> "none", tmp |-> 0]
    /\ UNCHANGED <<messages, file_content, secrets, dotenv, environ, disk>>

\* a file is put into the uploader and load_file runs on it (a cache miss).
\* load_file is cached per file, so the later runs that find the same file
\* in the uploader get the same text and store the value already stored.
Upload(f) ==
    /\ disk # 1..MaxTmpFiles
    /\ LET tmp == FreshTmp(disk)
           res == load_file(f)
       IN  /\ disk' = IF res.unlinked THEN disk ELSE disk \cup {tmp}
           /\ file_content' = StoreFileContent(file_content, res.content)
           /\ event' = [op |-> "upload", outcome |-> res.outcome, tmp |-> tmp]
    /\ request' = NoRequest
    /\ UNCHANGED <<messages, strict_file_mode, secrets, dotenv, environ>>

\* the clear button is pressed; st.rerun() starts a run that changes nothing
Clear ==
    /\ messages' = ClearHistory(messages)
    /\ request' = NoRequest
    /\ event' = [op |-> "clear", outcome |-> "none", tmp |-> 0]
    /\ UNCHANGED <<file_content, strict_file_mode, secrets, dotenv, environ, disk>>

\* a question is typed into the chat input; api is what the chat API does
\* if it is called.  main() appends the question, get_answer resolves the
\* key, builds the request and calls the API, main() appends the answer.
Send(question, api) ==
    /\ Len(messages) + 2 <= MaxTurns
    /\ LET pending == Append(messages, [role |-> "human", content |-> question])
           cred == get_api_key(secrets, dotenv, environ)
       IN  /\ environ' = cred.environ
           /\ IF cred.stop
              THEN \* st.stop() ends the script run inside get_answer: its
                   \* exception is not an Exception, so `except Exception`
                   \* lets it pass and the answer is never appended
                   /\ messages' = pending
                   /\ request' = NoRequest
                   /\ event' = [op |-> "send", outcome |-> "no_key", tmp |-> 0]
              ELSE \* the API accepts no request that carries an empty key
                   /\ cred.api_key = EmptyKey => api.raises
                   /\ request' = [sent |-> TRUE, api_key |-> cred.api_key,
                                  messages |-> BuildMessages(pending, question,
                                                  strict_file_mode, file_content)]
                   /\ messages' = Append(pending,
                                     [role |-> "ai", content |-> Answer(api)])
                   /\ event' = [op |-> "send",
                                outcome |-> IF api.raises THEN "api_error" ELSE "ok",
                                tmp |-> 0]
    /\ UNCHANGED <<file_content, strict_file_mode, secrets, dotenv, disk>>

Next ==
    \/ Toggle
    \/ \E f \in UploadedFiles : Upload(f)
    \/ Clear
    \/ \E q \in Questions, api \in ApiOutcomes : Send(q, api)

Spec == Init /\ [][Next]_vars

----------------------------------------------------------------------------
(* Properties *)

\* t occurs in s at position i
OccursAt(s, t, i) ==
    /\ i >= 1
    /\ i + Len(t) <= Len(s) + 1
    /\ SubSeq(s, i, i + Len(t) - 1) = t

\* the step is a script run that handled a question
SendStep == event'.op = "send"
\* the step is a script run that handled a question and called the chat API
RequestStep == SendStep /\ request'.sent
\* the question of a send step: the turn main() appended first
SentQuestion == messages'[Len(messages) + 1].content
\* the content of the last message of the request of a send step
LastContent == request'.messages[Len(request'.messages)].content
\* the log before the step is an unchanged prefix of the log after it
PrefixKept == /\ Len(messages') >= Len(messages)
              /\ SubSeq(messages', 1, Len(messages)) = messages

\* C1: every send-question action, whatever its outcome (API success, API
\* failure, no credential), lengthens the log by exactly two turns, the
\* user turn with the question and then one assistant turn, and keeps the
\* earlier turns as an unchanged prefix.
C1_SendAppendsTwoTurns ==
    [][SendStep =>
          /\ Len(messages') = Len(messages) + 2
          /\ PrefixKept
          /\ messages'[Len(messages) + 1].role = "human"
          /\ messages'[Len(messages) + 2].role = "ai"]_vars

\* C2: when the chat API raises, get_answer returns the fallback sentence
\* and the run appends the user turn and then exactly one assistant turn
\* holding the fallback sentence; the earlier turns are unchanged.
C2_ApiFailureYieldsFallbackTurn ==
    [][SendStep /\ event'.outcome = "api_error" =>
          /\ Len(messages') = Len(messages) + 2
          /\ PrefixKept
          /\ messages'[Len(messages) + 1].role = "human"
          /\ messages'[Len(messages) + 2] = [role |-> "ai", content |-> FallbackText]]_vars

\* a run in which the API raised ended with the question and the fallback turn
C2_Witness ==
    /\ event.op = "send" /\ event.outcome = "api_error"
    /\ request.sent
    /\ Len(messages) >= 3
    /\ messages[Len(messages) - 1].role = "human"
    /\ messages[Len(messages)] = [role |-> "ai", content |-> FallbackText]

\* C3 as stated: the clear action sets the log to exactly the seeded
\* greeting turn and leaves the document text and strict mode as they were.
C3_ClearRestoresGreeting ==
    [][event'.op = "clear" =>
          /\ messages' = <<GreetingTurn>>
          /\ file_content' = file_content
          /\ strict_file_mode' = strict_file_mode]_vars

\* C3 as amended: the clear action sets the log to exactly one turn, the
\* assistant's "history cleared" notice (not the greeting of the session
\* start), and leaves the document text and strict mode as they were.
C3_ClearLeavesClearedNotice ==
    [][event'.op = "clear" =>
          /\ messages' = <<ClearedTurn>>
          /\ messages' # <<GreetingTurn>>
          /\ file_content' = file_content
          /\ strict_file_mode' = strict_file_mode]_vars

\* a clear happened while a document was loaded and strict mode was on
C3_Witness ==
    /\ event.op = "clear"
    /\ Len(messages) = 1 /\ messages[1].role = "ai"
    /\ file_content # <<>>
    /\ strict_file_mode

\* C4: a question sent with strict mode on and a non-empty document text has,
\* as the last message of the request, an instruction that starts with the
\* refusal directive, then holds the whole document text verbatim and then
\* ends with the question; the messages before it are the projected history.
C4_StrictInstructionEmbedsDocument ==
    [][RequestStep /\ strict_file_mode /\ file_content # <<>> =>
          /\ Len(request'.messages) = Len(messages) + 1
          /\ OccursAt(LastContent, StrictDirective, 1)
          /\ \E i \in (Len(StrictDirective) + 1)..Len(LastContent) :
                /\ OccursAt(LastContent, file_content, i)
                /\ i + Len(file_content) <= Len(LastContent) - Len(SentQuestion) + 1
          /\ OccursAt(LastContent, SentQuestion, Len(LastContent) - Len(SentQuestion) + 1)
          /\ \A i \in 1..Len(messages) :
                request'.messages[i].content = messages[i].content]_vars

\* a strict request was sent with a two-page document and some history
C4_Witness ==
    /\ event.op = "send" /\ request.sent
    /\ strict_file_mode
    /\ file_content = <<"p1", "\n\n", "p2">>
    /\ Len(request.messages) >= 3
    /\ \E i \in 1..Len(request.messages[Len(request.messages)].content) :
          OccursAt(request.messages[Len(request.messages)].content, file_content, i)

C6_TmpFileRemoved ==
    event.op = "upload" => event.tmp \notin disk

\* the key C7 says a send uses: the first non-empty value in the order
\* secrets store, environment file, process environment
ClaimedKey(sec, file, env) ==
    IF Truthy(sec) THEN sec
    ELSE IF Truthy(file) THEN file
    ELSE IF Truthy(env) THEN env
    ELSE Absent

\* C7: a send uses the first non-empty value in the order secrets store,
\* environment file, process environment; when no source has one the send
\* is halted, so no request is made with an empty key.
C7_FirstNonEmptyKeyWins ==
    [][SendStep =>
          IF ClaimedKey(secrets, dotenv, environ) = Absent
          THEN ~request'.sent
          ELSE /\ request'.sent
               /\ request'.api_key = ClaimedKey(secrets, dotenv, environ)]_vars

\* C8: the request of a send is the projection, in order, of every turn the
\* log held before the question was appended ('ai' to assistant, any other
\* role to user, content unchanged) followed by one user message for the
\* question: the pending turn is the only one left out.
C8_RequestIsProjectedHistoryPlusQuestion ==
    [][RequestStep =>
          /\ Len(request'.messages) = Len(messages) + 1
          /\ \A i \in 1..Len(messages) :
                /\ request'.messages[i].content = messages[i].content
                /\ request'.messages[i].role =
                      (IF messages[i].role = "ai" THEN "assistant" ELSE "user")
          /\ request'.messages[Len(messages) + 1].role = "user"
          /\ OccursAt(LastContent, SentQuestion, Len(LastContent) - Len(SentQuestion) + 1)
          /\ ~(strict_file_mode /\ file_content # <<>>) => LastContent = SentQuestion]_vars

\* a request was sent whose history holds assistant and user messages
C8_Witness ==
    /\ event.op = "send" /\ request.sent
    /\ Len(request.messages) = 4
    /\ request.messages[1].role = "user"
    /\ request.messages[3].role = "assistant"
    /\ request.messages[4].role = "user"
    /\ request.messages[2].content # request.messages[4].content

\* C9 as stated: with strict mode on and no document text, the last message
\* of the request is the strict instruction built around an empty document.
C9_StrictWithoutDocumentSendsInstruction ==
    [][RequestStep /\ strict_file_mode /\ file_content = <<>> =>
          /\ OccursAt(LastContent, StrictDirective, 1)
          /\ LastContent # SentQuestion]_vars

\* C9 as amended: with strict mode on and no document text, the last message
\* of the request is the plain question; no strict instruction is built.
C9_StrictWithoutDocumentSendsPlainQuestion ==
    [][RequestStep /\ strict_file_mode /\ file_content = <<>> =>
          /\ LastContent = SentQuestion
          /\ ~OccursAt(LastContent, StrictDirective, 1)]_vars

\* a request was sent with strict mode on and no document text
C9_Witness ==
    /\ event.op = "send" /\ request.sent
    /\ strict_file_mode
    /\ file_content = <<>>
    /\ request.messages[Len(request.messages)].content \in Questions

\* C10: after every run the log is one opening turn followed by zero or more
\* (user turn, assistant turn) pairs: every user turn is followed at once by
\* an assistant turn and the log never ends with an unanswered user turn.
C10_LogIsOpeningTurnThenPairs ==
    /\ Len(messages) >= 1
    /\ messages[1].role # "human"
    /\ \A i \in 2..Len(messages) :
          IF i % 2 = 0
          THEN /\ messages[i].role = "human"
               /\ i < Len(messages)
               /\ messages[i + 1].role = "ai"
          ELSE messages[i].role = "ai"

====
